---- MODULE Spec2Model ----
(***************************************************************************)
(* Model of freshdesk_mbox_importer: the resumable import driver sync(),   *)
(* the retrying push(), the preflight checks, the noise filter and the     *)
(* SQLite progress store (src/freshdesk_mbox_importer/importer.py).        *)
(*                                                                         *)
(* Header values and thread keys are sequences of one-character strings,   *)
(* so that lower(), strip(), split() and substring search are computed.    *)
(***************************************************************************)
EXTENDS Integers, Sequences, FiniteSets, TLC

(***************************************************************************)
(* Bounds of the model.                                                    *)
(***************************************************************************)
\* longest mailbox explored
MaxMsgs == 3
\* number of consecutive executions of sync() against the same mailbox
MaxRuns == 2

(***************************************************************************)
(* String helpers (Python str methods used by the importer).               *)
(***************************************************************************)
Range(s) == {s[i] : i \in 1..Len(s)}

UpperChars == <<"A","B","C","D","E","F","G","H","I","J","K","L","M",
                "N","O","P","Q","R","S","T","U","V","W","X","Y","Z">>
LowerChars == <<"a","b","c","d","e","f","g","h","i","j","k","l","m",
                "n","o","p","q","r","s","t","u","v","w","x","y","z">>

LowerChar(c) ==
    IF \E i \in 1..26 : UpperChars[i] = c
    THEN LowerChars[CHOOSE i \in 1..26 : UpperChars[i] = c]
    ELSE c

\* str.lower()
lower(s) == [i \in 1..Len(s) |-> LowerChar(s[i])]

RECURSIVE lstrip(_)
lstrip(s) == IF s # <<>> /\ Head(s) = " " THEN lstrip(Tail(s)) ELSE s

RECURSIVE rstrip(_)
rstrip(s) ==
    IF s # <<>> /\ s[Len(s)] = " " THEN rstrip(SubSeq(s, 1, Len(s) - 1)) ELSE s

\* str.strip()
strip(s) == rstrip(lstrip(s))

\* position of the first occurrence of character c in s, 0 when absent
IndexOf(s, c) ==
    IF \E i \in 1..Len(s) : s[i] = c
    THEN CHOOSE i \in 1..Len(s) : s[i] = c /\ \A j \in 1..(i - 1) : s[j] # c
    ELSE 0

\* str.split(c): "".split(",") is [""], "a,b".split(",") is ["a","b"]
RECURSIVE split(_, _)
split(s, c) ==
    IF IndexOf(s, c) = 0
    THEN <<s>>
    ELSE <<SubSeq(s, 1, IndexOf(s, c) - 1)>>
           \o split(SubSeq(s, IndexOf(s, c) + 1, Len(s)), c)

\* sub in s
Contains(s, sub) ==
    \E i \in 0..(Len(s) - Len(sub)) : SubSeq(s, i + 1, i + Len(sub)) = sub

\* dict.get(name, default) on the plain dict built by dict(msg.items())
Get(headers, name, default) ==
    IF name \in DOMAIN headers THEN headers[name] ELSE default

\* Python truthiness of headers.get(name): None and "" are both false
Truthy(headers, name) == Get(headers, name, <<>>) # <<>>

(***************************************************************************)
(* Noise filter.                                                           *)
(***************************************************************************)
_SKIP_LABELS == { <<"s","p","a","m">>, <<"t","r","a","s","h">> }

_SPAM_ADDR_ALTS ==
    { <<"m","a","i","l","e","r","-","d","a","e","m","o","n","@">>,
      <<"p","o","s","t","m","a","s","t","e","r","@">>,
      <<"n","o","-","r","e","p","l","y","@">>,
      <<"n","o","_","r","e","p","l","y","@">> }

\* _SPAM_ADDR.search(sender): unanchored, case-insensitive
_SPAM_ADDR_search(sender) ==
    \E p \in _SPAM_ADDR_ALTS : Contains(lower(sender), p)

\* email.utils.parseaddr(value)[1] for the two shapes "addr" and "Name <addr>"
parseaddr_addr(value) ==
    LET lt == IndexOf(value, "<")
        gt == IndexOf(value, ">")
    IN  IF lt > 0 /\ gt > lt
        THEN strip(SubSeq(value, lt + 1, gt - 1))
        ELSE strip(value)

_is_spam(headers) ==
    LET labels == { lower(strip(l)) :
                      l \in Range(split(Get(headers, "X-Gmail-Labels", <<>>), ",")) }
    IN  IF labels \cap _SKIP_LABELS # {} THEN TRUE
        ELSE IF lower(Get(headers, "Precedence", <<>>))
                  \in { <<"b","u","l","k">>, <<"j","u","n","k">>, <<"l","i","s","t">> }
        THEN TRUE
        ELSE IF lower(Get(headers, "Auto-Submitted", <<>>)) \notin { <<>>, <<"n","o">> }
        THEN TRUE
        ELSE IF Contains(lower(Get(headers, "X-Auto-Response-Suppress", <<>>)),
                         <<"a","l","l">>)
        THEN TRUE
        ELSE _SPAM_ADDR_search(parseaddr_addr(Get(headers, "From", <<>>)))

(***************************************************************************)
(* Dates and ticket construction.                                          *)
(***************************************************************************)
\* The Date header values that parse, with the instant each denotes.
ValidDates == { <<"D","1">>, <<"D","2">> }
DateValue(d) == IF d = <<"D","1">> THEN 1 ELSE 2

\* email.utils.parsedate_to_datetime: raises ValueError on "" and on garbage
parsedate_to_datetime(d) ==
    IF d \in ValidDates THEN [raised |-> FALSE, t |-> DateValue(d)]
                        ELSE [raised |-> TRUE, t |-> 0]

MsgDate(m) == parsedate_to_datetime(Get(m.hdrs, "Date", <<>>))

\* list.sort(key=...): stable insertion of m into an already sorted list
RECURSIVE InsertSorted(_, _)
InsertSorted(sorted, m) ==
    IF sorted = <<>> THEN <<m>>
    ELSE IF MsgDate(m).t < MsgDate(Head(sorted)).t
         THEN <<m>> \o sorted
         ELSE <<Head(sorted)>> \o InsertSorted(Tail(sorted), m)

RECURSIVE SortByDate(_)
SortByDate(messages) ==
    IF messages = <<>> THEN <<>>
    ELSE InsertSorted(SortByDate(SubSeq(messages, 1, Len(messages) - 1)),
                      messages[Len(messages)])

\* one rendered block per message: the timestamp it shows and its body
_html_block(m) == [ts |-> MsgDate(m).t, body |-> m.body]

\* build_thread_ticket(messages, group_id): the payload, or a raised ValueError
\* when any Date header of the list does not parse
build_thread_ticket(messages, group_id) ==
    IF \E i \in 1..Len(messages) : MsgDate(messages[i]).raised
    THEN [raised |-> TRUE]
    ELSE LET sorted == SortByDate(messages)
             first  == sorted[1]
         IN  [raised       |-> FALSE,
              subject      |-> IF Get(first.hdrs, "Subject", <<>>) # <<>>
                               THEN Get(first.hdrs, "Subject", <<>>)
                               ELSE <<"(","n","o"," ","s","u","b","j","e","c","t",")">>,
              description  |-> [i \in 1..Len(sorted) |-> _html_block(sorted[i])],
              group_id     |-> group_id,
              tags         |-> <<"imported">>,
              original_date |-> MsgDate(first).t]

(***************************************************************************)
(* The mailbox.                                                            *)
(***************************************************************************)
Msg(hdrs, body) == [hdrs |-> hdrs, body |-> body]

T1 == <<"T","1">>
M1 == <<"M","1">>
M2 == <<"M","2">>
M3 == <<"M","3">>
M4 == <<"M","4">>
M5 == <<"M","5">>
M6 == <<"M","6">>
D1 == <<"D","1">>
D2 == <<"D","2">>
Text == <<"h","i">>

\* two messages of one Gmail thread, the later one first in the archive
KThreadA == Msg(("X-GM-THRID" :> T1) @@ ("Message-ID" :> M1) @@ ("Date" :> D2), Text)
KThreadB == Msg(("X-GM-THRID" :> T1) @@ ("Message-ID" :> M2) @@ ("Date" :> D1), Text)
\* a standalone message
KPlain   == Msg(("Message-ID" :> M3) @@ ("Date" :> D1), Text)
\* a message with neither X-GM-THRID nor Message-ID
KAnon    == Msg(("Date" :> D1), Text)
\* a message without a Date header
KNoDate  == Msg(("Message-ID" :> M4), Text)
\* bulk mail
KBulk    == Msg(("Message-ID" :> M5) @@ ("Date" :> D1)
                  @@ ("Precedence" :> <<"B","u","l","k">>), Text)
\* a message whose body is only whitespace
KBlank   == Msg(("Message-ID" :> M6) @@ ("Date" :> D1), <<" ">>)

Kinds == {KThreadA, KThreadB, KPlain, KAnon, KNoDate, KBulk, KBlank}

\* the archives explored: a Message-ID names one message, so only the message
\* without identifying headers may occur more than once
Mailboxes ==
    { box \in UNION { [1..n -> Kinds] : n \in 0..MaxMsgs } :
        \A i, j \in DOMAIN box : (i # j /\ box[i] = box[j]) => box[i] = KAnon }

\* str(id(headers)): the address of a dict, one token per address
Addr(k) == <<"#", ToString(k)>>
Addrs == { Addr(k) : k \in 1..MaxMsgs }

AllKeys == {T1, M1, M2, M3, M4, M5, M6} \cup Addrs

\* iter_messages(path): the messages whose body is not blank, in archive order
iter_messages(box) == SelectSeq(box, LAMBDA m : strip(m.body) # <<>>)

(***************************************************************************)
(* push(): tenacity policy.                                                *)
(***************************************************************************)
\* stop_after_attempt(5)
MaxAttempts == 5

\* variant: the attempt cap compared with > instead of >=
stop_after_attempt_OffByOne(attempt_number) == attempt_number > MaxAttempts

stop_after_attempt(attempt_number) == attempt_number >= MaxAttempts

\* the outcomes of httpx.post(...).raise_for_status()
Responses == {"ok", "5xx", "4xx"}

\* retry_if_exception_type(httpx.HTTPError): HTTPStatusError (4xx and 5xx alike) and
\* every transport error derive from httpx.HTTPError
retry_if_exception_type(r) == r \in {"5xx", "4xx"}

(***************************************************************************)
(* State.                                                                  *)
(***************************************************************************)
VARIABLES
    mbox,       \* the archive at settings.mbox_path
    run,        \* ordinal of the current execution of sync()
    pc,         \* position of the process inside sync()
    dbExists,   \* whether .fd_progress.db exists
    db,         \* committed rows of table processed
    txn,        \* rows inserted by the open connection and not yet committed
    group_id,   \* local group_id of sync(), 0 while unset
    mi,         \* position of the filtering loop in iter_messages
    items,      \* the list items of sync()
    ii,         \* position of the import loop in items
    ticket,     \* the payload being pushed
    attempt,    \* tenacity's attempt_number of the current push() call
    resp,       \* outcome of the request in flight
    exitCode,   \* exit status of the process, -1 while running
    cause,      \* what ended a failed run
    \* history
    requests,   \* POST requests issued by the current push() call
    created,    \* tickets created remotely, per thread key
    returned,   \* push() calls that returned normally, per thread key
    runPushes,  \* thread keys push() returned normally for, in this run, in order
    dbAtOpen,   \* committed rows this run started from (after _init_db)
    purged,     \* whether the purge answered at the prompt of this run dropped rows
    fieldOk,    \* GET /ticket_fields has listed the custom field in this run
    prompts,    \* times ensure_import_group has shown its prompt
    prev,       \* how the previous run ended
    kept,       \* no row of the store was ever purged or deleted with the file
    sleeps,     \* time.sleep(settings.rate_delay) calls completed in this run
    lookups     \* SELECTs on table processed issued in this run

vars == <<mbox, run, pc, dbExists, db, txn, group_id, mi, items, ii, ticket,
          attempt, resp, exitCode, cause, requests, created, returned,
          runPushes, dbAtOpen, purged, fieldOk, prompts, prev, kept,
          sleeps, lookups>>

store    == <<dbExists, db, txn>>
\* what lives in the memory of the process, apart from items and ii
frame    == <<group_id, mi, ticket, attempt, resp, requests, purged, fieldOk, prompts>>
\* what outlives the step of an action that neither creates a ticket nor returns
\* from push()
ledger   == <<created, returned, runPushes, dbAtOpen, prev, kept>>
\* the counts of rate-delay sleeps and of store lookups
tally    == <<sleeps, lookups>>

NoTicket == [raised |-> TRUE]
NoPrev   == [how |-> "none", items |-> <<>>, ii |-> 0, db |-> {}]

\* positions inside the try block of sync() (lines 191-198)
TryPcs == {"Loop", "Post", "Response", "Backoff", "Insert", "Commit", "Sleep"}
Terminal == {"Completed", "NothingNew", "Interrupted", "Failed"}

msgs == iter_messages(mbox)
Tids(its) == [i \in 1..Len(its) |-> its[i].tid]

\* the process is about to run sync() on archive box, the store file holding rows
Start(box, exists, rows) ==
    /\ mbox = box
    /\ run = 1
    /\ pc = "Prompt"
    /\ dbExists = exists
    /\ db = rows
    /\ txn = {}
    /\ group_id = 0
    /\ mi = 0
    /\ items = <<>>
    /\ ii = 0
    /\ ticket = NoTicket
    /\ attempt = 0
    /\ resp = "none"
    /\ exitCode = -1
    /\ cause = "none"
    /\ requests = 0
    /\ created = [k \in AllKeys |-> IF k \in rows THEN 1 ELSE 0]
    /\ returned = [k \in AllKeys |-> IF k \in rows THEN 1 ELSE 0]
    /\ runPushes = <<>>
    /\ dbAtOpen = rows
    /\ purged = FALSE
    /\ fieldOk = FALSE
    /\ prompts = 0
    /\ prev = NoPrev
    /\ kept = TRUE
    /\ sleeps = 0
    /\ lookups = 0

\* first execution: no store file yet
Init == \E box \in Mailboxes : Start(box, FALSE, {})

\* the messages of box that sync() can import, in order: the import loop stops
\* for good at the first surviving message whose ticket cannot be built
RECURSIVE Importable(_)
Importable(ms) ==
    IF ms = <<>> THEN <<>>
    ELSE IF _is_spam(Head(ms).hdrs) THEN Importable(Tail(ms))
    ELSE IF build_thread_ticket(<<Head(ms)>>, 0).raised THEN <<>>
    ELSE <<Head(ms)>> \o Importable(Tail(ms))

\* the key the j-th importable message got in an earlier run, an address being
\* taken for a message without identifying headers
EarlierKey(ms, j) ==
    IF Truthy(ms[j].hdrs, "X-GM-THRID") THEN ms[j].hdrs["X-GM-THRID"]
    ELSE IF Truthy(ms[j].hdrs, "Message-ID") THEN ms[j].hdrs["Message-ID"]
    ELSE Addr(Cardinality({i \in 1..j : /\ ~Truthy(ms[i].hdrs, "X-GM-THRID")
                                         /\ ~Truthy(ms[i].hdrs, "Message-ID")}))

\* the rows an earlier run over the same archive can have left behind: the keys
\* of the first n importable messages
Stores(box) ==
    LET ms == Importable(iter_messages(box))
    IN  { {EarlierKey(ms, j) : j \in 1..n} : n \in 0..Len(ms) }

\* any execution: the store file is absent, or holds what an earlier run left
InitRun ==
    \E box \in Mailboxes :
        \/ Start(box, FALSE, {})
        \/ \E rows \in Stores(box) : Start(box, TRUE, rows)

\* the process exits: its memory is gone; items and ii are kept as the record of
\* where the run stood
Exit(to, why, status) ==
    /\ pc' = to
    /\ cause' = why
    /\ exitCode' = status
    /\ group_id' = 0
    /\ mi' = 0
    /\ ticket' = NoTicket
    /\ attempt' = 0
    /\ resp' = "none"
    /\ requests' = 0
    /\ fieldOk' = FALSE
    /\ prompts' = 0
    /\ UNCHANGED purged

\* variant: the exception is swallowed and the process ends with status 0
Abort_ExitsZero(why, status) ==
    /\ Exit("Failed", why, 0)
    /\ txn' = {}
    /\ UNCHANGED <<dbExists, db>>

\* an exception leaves sync() uncaught: the interpreter exits, the open
\* transaction is rolled back
Abort(why, status) ==
    /\ Exit("Failed", why, status)
    /\ txn' = {}
    /\ UNCHANGED <<dbExists, db>>

(***************************************************************************)
(* sync(): purge prompt and _init_db.                                      *)
(***************************************************************************)
\* variant: the table is created when missing and never dropped
_init_db_KeepsRows(purge) ==
    /\ dbExists' = TRUE
    /\ db' = db
    /\ txn' = {}

\* _init_db(purge): DROP TABLE when purging, CREATE TABLE IF NOT EXISTS, commit
_init_db(purge) ==
    /\ dbExists' = TRUE
    /\ db' = IF purge THEN {} ELSE db
    /\ txn' = {}

InitDb ==
    /\ pc = "Prompt"
    /\ \E purge \in BOOLEAN :
          /\ _init_db(purge)
          /\ purged' = (purge /\ db # {})
    /\ dbAtOpen' = db'
    /\ kept' = (kept /\ db' = db)
    /\ pc' = "CheckField"
    /\ UNCHANGED <<tally, mbox, run, group_id, mi, items, ii, ticket, attempt, resp,
                   exitCode, cause, requests, created, returned, runPushes,
                   fieldOk, prompts, prev>>

(***************************************************************************)
(* Preflight.                                                              *)
(***************************************************************************)
\* variant: a missing custom field is reported but does not stop the run
ensure_custom_field_Lenient ==
    /\ pc = "CheckField"
    /\ \E r \in {"http_error", "absent", "present"} :
          IF r = "http_error"
          THEN Abort("preflight_http", 1)
          ELSE /\ pc' = "CheckGroup"
               /\ fieldOk' = (r = "present")
               /\ UNCHANGED <<store, exitCode, cause, group_id, mi, ticket, attempt,
                              resp, requests, purged, prompts>>
    /\ UNCHANGED <<tally, mbox, run, items, ii, ledger>>

\* ensure_custom_field(): GET /ticket_fields
ensure_custom_field ==
    /\ pc = "CheckField"
    /\ \E r \in {"http_error", "absent", "present"} :
          IF r = "present"
          THEN /\ pc' = "CheckGroup"
               /\ fieldOk' = TRUE
               /\ UNCHANGED <<store, exitCode, cause, group_id, mi, ticket, attempt,
                              resp, requests, purged, prompts>>
          ELSE Abort(IF r = "absent" THEN "field_missing" ELSE "preflight_http", 1)
    /\ UNCHANGED <<tally, mbox, run, items, ii, ledger>>

\* ensure_import_group() returns g["id"]: group_id is bound and the filtering
\* loop starts (lines 175-177)
GroupResolved ==
    /\ pc' = "Filtering"
    /\ group_id' = 11
    /\ mi' = 1
    /\ prompts' = 0
    /\ UNCHANGED <<store, exitCode, cause, ticket, attempt, resp, requests, purged,
                   fieldOk>>

\* ensure_import_group(): first GET /groups
ensure_import_group ==
    /\ pc = "CheckGroup"
    /\ \E r \in {"http_error", "absent", "found"} :
          CASE r = "found"      -> GroupResolved
            [] r = "absent"     -> /\ pc' = "GroupPrompt"
                                   /\ UNCHANGED <<store, exitCode, cause, frame>>
            [] r = "http_error" -> Abort("preflight_http", 1)
    /\ UNCHANGED <<tally, mbox, run, items, ii, ledger>>

\* input("Group ... not found. ... press Enter to continue"): the operator answers
GroupPrompt ==
    /\ pc = "GroupPrompt"
    /\ prompts' = prompts + 1
    /\ pc' = "RecheckGroup"
    /\ UNCHANGED <<tally, mbox, run, store, group_id, mi, items, ii, ticket, attempt, resp,
                   exitCode, cause, requests, purged, fieldOk, ledger>>

\* ensure_import_group(): second GET /groups, then raise
RecheckGroup ==
    /\ pc = "RecheckGroup"
    /\ \E r \in {"http_error", "absent", "found"} :
          IF r = "found"
          THEN GroupResolved
          ELSE Abort(IF r = "absent" THEN "group_missing" ELSE "preflight_http", 1)
    /\ UNCHANGED <<tally, mbox, run, items, ii, ledger>>

(***************************************************************************)
(* Filtering pass (lines 176-187).                                         *)
(***************************************************************************)
\* addresses of the dicts still referenced from items
LiveIds == {items[i].tid : i \in 1..Len(items)} \cap Addrs

\* addresses that never served as a key so far
Unused == {a \in Addrs : a \notin db /\ created[a] = 0 /\ a \notin LiveIds}

\* id(headers): any address not held by a live dict.  The addresses that never
\* served as a key are interchangeable, the lowest stands for them.
IdOf(live) ==
    {a \in Addrs \ live : a \notin Unused}
      \cup {Addr(k) : k \in {j \in 1..MaxMsgs :
                                /\ Addr(j) \in Unused
                                /\ \A l \in 1..(j - 1) : Addr(l) \notin Unused}}

\* the values of str(headers.get("X-GM-THRID") or headers.get("Message-ID")
\* or id(headers))
ThreadKeys(headers, live) ==
    IF Truthy(headers, "X-GM-THRID") THEN {headers["X-GM-THRID"]}
    ELSE IF Truthy(headers, "Message-ID") THEN {headers["Message-ID"]}
    ELSE IdOf(live)

\* SELECT 1 FROM processed WHERE thread_id = ?
Processed(tid) == tid \in db \cup txn

\* variant: a noise message is dropped without the scan moving on
FilterStep_Stalls ==
    /\ pc = "Filtering"
    /\ mi <= Len(msgs)
    /\ LET m == msgs[mi] IN
         IF _is_spam(m.hdrs)
         THEN UNCHANGED <<items, lookups, mi>>
         ELSE /\ \E tid \in ThreadKeys(m.hdrs, LiveIds) :
                    items' = IF Processed(tid)
                             THEN items
                             ELSE Append(items, [tid |-> tid, msg |-> m])
              /\ lookups' = lookups + 1
              /\ mi' = mi + 1
    /\ UNCHANGED <<sleeps, mbox, run, pc, store, group_id, ii, ticket, attempt, resp,
                   exitCode, cause, requests, purged, fieldOk, prompts, ledger>>

FilterStep ==
    /\ pc = "Filtering"
    /\ mi <= Len(msgs)
    /\ LET m == msgs[mi] IN
         IF _is_spam(m.hdrs)
         THEN UNCHANGED <<items, lookups>>
         ELSE /\ \E tid \in ThreadKeys(m.hdrs, LiveIds) :
                    items' = IF Processed(tid)
                             THEN items
                             ELSE Append(items, [tid |-> tid, msg |-> m])
              /\ lookups' = lookups + 1
    /\ mi' = mi + 1
    /\ UNCHANGED <<sleeps, mbox, run, pc, store, group_id, ii, ticket, attempt, resp,
                   exitCode, cause, requests, purged, fieldOk, prompts, ledger>>

\* variant: the "nothing new" return also removes the store file
FilterDone_Unlinks ==
    /\ pc = "Filtering"
    /\ mi > Len(msgs)
    /\ IF items = <<>>
       THEN /\ Exit("NothingNew", "none", 0)
            /\ txn' = {}
            /\ dbExists' = FALSE
            /\ db' = {}
            /\ UNCHANGED ii
       ELSE /\ pc' = "Loop"
            /\ ii' = 1
            /\ UNCHANGED <<store, exitCode, cause, frame>>
    /\ UNCHANGED <<tally, mbox, run, items, ledger>>

\* the mailbox is exhausted: "Nothing new to import" and return, or enter the try
FilterDone ==
    /\ pc = "Filtering"
    /\ mi > Len(msgs)
    /\ IF items = <<>>
       THEN /\ Exit("NothingNew", "none", 0)
            /\ txn' = {}
            /\ UNCHANGED <<dbExists, db, ii>>
       ELSE /\ pc' = "Loop"
            /\ ii' = 1
            /\ UNCHANGED <<store, exitCode, cause, frame>>
    /\ UNCHANGED <<tally, mbox, run, items, ledger>>

(***************************************************************************)
(* Import loop (lines 191-198) and push() (lines 140-149).                 *)
(***************************************************************************)
Bump(f, k) == [f EXCEPT ![k] = @ + 1]

\* variant: the loop looks the key up again and skips an item recorded meanwhile
LoopNext_Rechecks ==
    /\ pc = "Loop"
    /\ ii <= Len(items)
    /\ lookups' = lookups + 1
    /\ IF Processed(items[ii].tid)
       THEN /\ ii' = ii + 1
            /\ UNCHANGED <<store, exitCode, cause, frame>>
       ELSE /\ LET t == build_thread_ticket(<<items[ii].msg>>, group_id) IN
                 IF t.raised
                 THEN Abort("build", 1)
                 ELSE /\ ticket' = t
                      /\ attempt' = 1
                      /\ requests' = 0
                      /\ pc' = "Post"
                      /\ UNCHANGED <<store, exitCode, cause, group_id, mi, resp,
                                     purged, fieldOk, prompts>>
            /\ UNCHANGED ii
    /\ UNCHANGED <<sleeps, mbox, run, items, ledger>>

\* top of the for loop with an item left: build_thread_ticket([(hdrs, body)], group_id)
\* is evaluated, then push() is entered
LoopNext ==
    /\ pc = "Loop"
    /\ ii <= Len(items)
    /\ LET t == build_thread_ticket(<<items[ii].msg>>, group_id) IN
         IF t.raised
         THEN Abort("build", 1)
         ELSE /\ ticket' = t
              /\ attempt' = 1
              /\ requests' = 0
              /\ pc' = "Post"
              /\ UNCHANGED <<store, exitCode, cause, group_id, mi, resp, purged,
                             fieldOk, prompts>>
    /\ UNCHANGED <<tally, mbox, run, items, ii, ledger>>

\* httpx.post(...): the request reaches Freshdesk (or fails on the way); a 2xx
\* answer means the ticket now exists remotely
Post ==
    /\ pc = "Post"
    /\ requests' = requests + 1
    /\ \E r \in Responses :
          /\ resp' = r
          /\ created' = IF r = "ok" THEN Bump(created, items[ii].tid) ELSE created
    /\ pc' = "Response"
    /\ UNCHANGED <<tally, mbox, run, store, group_id, mi, items, ii, ticket, attempt,
                   exitCode, cause, returned, runPushes, dbAtOpen, purged, fieldOk,
                   prompts, prev, kept>>

\* raise_for_status() and tenacity's decision on the outcome of the attempt
Receive ==
    /\ pc = "Response"
    /\ IF ~retry_if_exception_type(resp)
       THEN /\ pc' = "Insert"
            /\ returned' = Bump(returned, items[ii].tid)
            /\ runPushes' = Append(runPushes, items[ii].tid)
            /\ UNCHANGED <<store, exitCode, cause, frame>>
       ELSE IF stop_after_attempt(attempt)
       THEN /\ Abort("push", 1)
            /\ UNCHANGED <<returned, runPushes>>
       ELSE /\ pc' = "Backoff"
            /\ UNCHANGED <<store, exitCode, cause, frame, returned, runPushes>>
    /\ UNCHANGED <<tally, mbox, run, items, ii, created, dbAtOpen, prev, kept>>

\* variant: the rate delay is also paid before every retry
Backoff_PaysDelay ==
    /\ pc = "Backoff"
    /\ attempt' = attempt + 1
    /\ sleeps' = sleeps + 1
    /\ pc' = "Post"
    /\ UNCHANGED <<lookups, mbox, run, store, group_id, mi, items, ii, ticket, resp,
                   exitCode, cause, requests, purged, fieldOk, prompts, ledger>>

\* wait_exponential(min=1, max=60) sleep, then the next attempt
Backoff ==
    /\ pc = "Backoff"
    /\ attempt' = attempt + 1
    /\ pc' = "Post"
    /\ UNCHANGED <<tally, mbox, run, store, group_id, mi, items, ii, ticket, resp,
                   exitCode, cause, requests, purged, fieldOk, prompts, ledger>>

\* INSERT OR IGNORE INTO processed(thread_id) VALUES (tid)
Insert ==
    /\ pc = "Insert"
    /\ txn' = txn \cup ({items[ii].tid} \ db)
    /\ pc' = "Commit"
    /\ UNCHANGED <<tally, mbox, run, dbExists, db, items, ii, frame, exitCode, cause, ledger>>

\* variant: the commit is left to the end of the run
Commit_Deferred ==
    /\ pc = "Commit"
    /\ pc' = "Sleep"
    /\ UNCHANGED <<tally, mbox, run, store, items, ii, frame, exitCode, cause, ledger>>

\* conn.commit()
Commit ==
    /\ pc = "Commit"
    /\ db' = db \cup txn
    /\ txn' = {}
    /\ pc' = "Sleep"
    /\ UNCHANGED <<tally, mbox, run, dbExists, items, ii, frame, exitCode, cause, ledger>>

\* variant: the loop advances without the rate-delay sleep
Sleep_Skipped ==
    /\ pc = "Sleep"
    /\ ii' = ii + 1
    /\ pc' = "Loop"
    /\ UNCHANGED <<tally, mbox, run, store, items, frame, exitCode, cause, ledger>>

\* time.sleep(settings.rate_delay), then the loop advances
Sleep ==
    /\ pc = "Sleep"
    /\ sleeps' = sleeps + 1
    /\ ii' = ii + 1
    /\ pc' = "Loop"
    /\ UNCHANGED <<lookups, mbox, run, store, items, frame, exitCode, cause, ledger>>

\* the for loop is exhausted: control leaves the try block
LoopEnd ==
    /\ pc = "Loop"
    /\ ii > Len(items)
    /\ pc' = "Close"
    /\ UNCHANGED <<tally, mbox, run, store, items, ii, frame, exitCode, cause, ledger>>

\* conn.close(); _DB_PATH.unlink(missing_ok=True); return
Close ==
    /\ pc = "Close"
    /\ Exit("Completed", "none", 0)
    /\ dbExists' = FALSE
    /\ db' = {}
    /\ txn' = {}
    /\ kept' = (kept /\ db = {})
    /\ UNCHANGED <<tally, mbox, run, items, ii, created, returned, runPushes, dbAtOpen, prev>>

(***************************************************************************)
(* SIGINT, crash, and the next execution.                                  *)
(***************************************************************************)
\* variant: the except clause records the thread it was working on
Interrupt_RecordsInFlight ==
    /\ pc \in TryPcs
    /\ Exit("Interrupted", "none", 1)
    /\ db' = db \cup txn \cup (IF ii <= Len(items) THEN {items[ii].tid} ELSE {})
    /\ txn' = {}
    /\ UNCHANGED <<tally, mbox, run, dbExists, items, ii, ledger>>

\* variant: the except clause exits without conn.commit()
Interrupt_NoCommit ==
    /\ pc \in TryPcs
    /\ Exit("Interrupted", "none", 1)
    /\ txn' = {}
    /\ UNCHANGED <<tally, mbox, run, dbExists, db, items, ii, ledger>>

\* _handle_interrupt raises KeyboardInterrupt inside the try block: the except
\* clause commits and calls sys.exit(1)
Interrupt ==
    /\ pc \in TryPcs
    /\ Exit("Interrupted", "none", 1)
    /\ db' = db \cup txn
    /\ txn' = {}
    /\ UNCHANGED <<tally, mbox, run, dbExists, items, ii, ledger>>

\* KeyboardInterrupt raised outside the try block is not caught
InterruptOutside ==
    /\ pc \notin TryPcs \cup Terminal
    /\ Abort("KeyboardInterrupt", 130)
    /\ UNCHANGED <<tally, mbox, run, items, ii, ledger>>

\* the process is killed (SIGKILL, power loss): nothing more is committed
Crash ==
    /\ pc \notin Terminal
    /\ Abort("crash", 137)
    /\ UNCHANGED <<tally, mbox, run, items, ii, ledger>>

\* how a run ended, as far as the next run can tell
HowEnded ==
    IF pc = "Failed" THEN (IF cause = "push" THEN "push" ELSE "failed") ELSE pc

\* the operator runs the importer again on the same mailbox
NextRun ==
    /\ pc \in Terminal
    /\ run < MaxRuns
    /\ run' = run + 1
    /\ pc' = "Prompt"
    /\ prev' = [how |-> HowEnded, items |-> items, ii |-> ii, db |-> db]
    /\ dbAtOpen' = db
    /\ items' = <<>>
    /\ ii' = 0
    /\ exitCode' = -1
    /\ cause' = "none"
    /\ runPushes' = <<>>
    /\ purged' = FALSE
    /\ sleeps' = 0
    /\ lookups' = 0
    /\ UNCHANGED <<mbox, store, group_id, mi, ticket, attempt, resp, requests,
                   fieldOk, prompts, created, returned, kept>>

Next ==
    \/ InitDb
    \/ ensure_custom_field
    \/ ensure_import_group
    \/ GroupPrompt
    \/ RecheckGroup
    \/ FilterStep
    \/ FilterDone
    \/ LoopNext
    \/ Post
    \/ Receive
    \/ Backoff
    \/ Insert
    \/ Commit
    \/ Sleep
    \/ LoopEnd
    \/ Close
    \/ Interrupt
    \/ InterruptOutside
    \/ Crash
    \/ NextRun

Spec == Init /\ [][Next]_vars

\* one execution of sync(), from any store an earlier execution can have left
RunNext ==
    \/ InitDb
    \/ ensure_custom_field
    \/ ensure_import_group
    \/ GroupPrompt
    \/ RecheckGroup
    \/ FilterStep
    \/ FilterDone
    \/ LoopNext
    \/ Post
    \/ Receive
    \/ Backoff
    \/ Insert
    \/ Commit
    \/ Sleep
    \/ LoopEnd
    \/ Close
    \/ Interrupt
    \/ InterruptOutside
    \/ Crash

SpecRun == InitRun /\ [][RunNext]_vars

\* the statements of the process itself: every step of a run but a signal and a
\* kill
Program ==
    \/ InitDb
    \/ ensure_custom_field
    \/ ensure_import_group
    \/ GroupPrompt
    \/ RecheckGroup
    \/ FilterStep
    \/ FilterDone
    \/ LoopNext
    \/ Post
    \/ Receive
    \/ Backoff
    \/ Insert
    \/ Commit
    \/ Sleep
    \/ LoopEnd
    \/ Close

\* one execution in which the process keeps running: the interpreter executes
\* the next statement, and every prompt, HTTP request and sleep returns
SpecFair == InitRun /\ [][RunNext]_vars /\ WF_vars(Program)

(***************************************************************************)
(* The noise filter over a range of header mappings.                       *)
(***************************************************************************)
\* the ways each header read by _is_spam occurs in the archive: absent, or
\* written with some spelling of its name and some value
LabelHeaders ==
    { <<>>,
      ("X-Gmail-Labels" :> <<"I","n","b","o","x">>),
      ("X-Gmail-Labels" :> <<"I","n","b","o","x",","," ","S","P","A","M">>),
      ("x-gmail-labels" :> <<"T","r","a","s","h">>) }
PrecedenceHeaders ==
    { <<>>,
      ("Precedence" :> <<"B","u","l","k">>),
      ("Precedence" :> <<"f","i","r","s","t">>),
      ("precedence" :> <<"l","i","s","t">>) }
AutoSubmittedHeaders ==
    { <<>>,
      ("Auto-Submitted" :> <<"N","o">>),
      ("Auto-Submitted" :> <<"a","u","t","o","-","r","e","p","l","i","e","d">>) }
SuppressHeaders ==
    { <<>>,
      ("X-Auto-Response-Suppress" :> <<"D","R",","," ","A","l","l">>) }
FromHeaders ==
    { <<>>,
      ("From" :> <<"A","n","n"," ","<","a","n","n","@","x",".","i","o",">">>),
      ("From" :> <<"N","o","-","R","e","p","l","y","@","x",".","i","o">>),
      ("From" :> <<"<","i","n","f","o","-","n","o","-","r","e","p","l","y","@",
                   "x",".","i","o",">">>) }

\* dict(msg.items()): one key per header line, spelled as in the archive
NoiseHeaders ==
    { l @@ p @@ a @@ x @@ f @@ ("Message-ID" :> M3) @@ ("Date" :> D1) :
        l \in LabelHeaders, p \in PrecedenceHeaders, a \in AutoSubmittedHeaders,
        x \in SuppressHeaders, f \in FromHeaders }

\* first execution over an archive of one message with any of these headers
InitNoise == \E h \in NoiseHeaders : Start(<<Msg(h, Text)>>, FALSE, {})

SpecNoise == InitNoise /\ [][RunNext]_vars

(***************************************************************************)
(* Properties.                                                             *)
(***************************************************************************)
Count(seq, k) == Cardinality({i \in 1..Len(seq) : seq[i] = k})
Msgs(its) == [i \in 1..Len(its) |-> its[i].msg]
Distinct(seq) == \A i, j \in 1..Len(seq) : i # j => seq[i] # seq[j]

\* C1: while no row of the progress store was purged or deleted, push() has
\* returned normally at most once for every thread key, within and across runs.
C1_AtMostOnePushPerKey ==
    kept => \A k \in AllKeys : returned[k] <= 1

\* C2: a run that completes has pushed exactly one ticket per distinct thread key
\* of its surviving messages, that ticket covering every message of the thread;
\* it has exited with status 0 and the store is deleted.
C2_OneTicketPerThread ==
    pc = "Completed" =>
        /\ Len(runPushes) = Cardinality(Range(Tids(items)))
        /\ exitCode = 0
        /\ ~dbExists

\* C3: every key in the progress store, committed or pending, was there when the
\* run started or is the key of a push() that returned normally in this run, and
\* push() has returned normally for it at some time.
C3_RecordedOnlyAfterSuccess ==
    /\ db \cup txn \subseteq dbAtOpen \cup Range(runPushes)
    /\ \A k \in db \cup txn : returned[k] >= 1

\* C3 witness: a key is recorded while a later thread's push has failed and the
\* run has aborted.
C3_Witness ==
    /\ pc = "Failed"
    /\ cause = "push"
    /\ ii > 1
    /\ db = {items[i].tid : i \in 1..(ii - 1)}
    /\ items[ii].tid \notin db

\* C4: when the push of the k-th of n threads with distinct keys fails for good,
\* the store holds what it held at the start plus the keys of threads 1..k-1, and
\* the next run without purge imports exactly threads k..n.
C4_ResumeAfterPushFailure ==
    /\ (pc = "Failed" /\ cause = "push") =>
          db = dbAtOpen \cup {items[i].tid : i \in 1..(ii - 1)}
    /\ (/\ prev.how = "push"
        /\ Distinct(Tids(prev.items))
        /\ ~purged
        /\ pc \in TryPcs) =>
          Msgs(items) = SubSeq(Msgs(prev.items), prev.ii, Len(prev.items))

\* C5: one push() call issues at most 5 requests; it gives up only on the failure
\* of the 5th, and the failure of the 5th is never followed by another attempt.
C5_AtMostFiveRequests ==
    /\ [](requests <= 5)
    /\ [](pc \in {"Response", "Backoff"} => requests = attempt)
    /\ [][(pc = "Response" /\ pc' = "Failed" /\ cause' = "push")
             => (requests = 5 /\ resp # "ok")]_vars
    /\ [][(pc = "Response" /\ resp # "ok" /\ requests = 5) => pc' # "Backoff"]_vars
    /\ [][(pc = "Response" /\ resp = "ok") => pc' # "Backoff"]_vars

\* C5 witness: push() has returned normally on its 5th request.
C5_Witness ==
    pc = "Insert" /\ requests = 5 /\ attempt = 5 /\ resp = "ok"

\* C6: an attempt answered with a fatal 4xx status is never retried.
C6_FatalNotRetried ==
    pc = "Backoff" => resp = "5xx"

\* C7: SIGINT inside the import loop ends the run in Interrupted with exit status
\* 1: the store file stays and every row recorded so far is committed; a run
\* that starts without purge from the rows an earlier run left keeps them and
\* pushes only threads whose key is not among them.
C7_InterruptKeepsProgress ==
    /\ [][(pc \in TryPcs /\ pc' = "Failed") => cause' # "KeyboardInterrupt"]_vars
    /\ [][(pc' = "Interrupted" /\ pc # "Interrupted")
             => /\ pc \in TryPcs
                /\ dbExists'
                /\ db \cup txn \subseteq db'
                /\ exitCode' = 1]_vars
    /\ [](pc = "Interrupted" => (dbExists /\ dbAtOpen \subseteq db /\ exitCode = 1))
    /\ []((~purged /\ pc # "Prompt")
             => /\ pc # "Completed" => dbAtOpen \subseteq db
                /\ Range(runPushes) \cap dbAtOpen = {}
                /\ Range(Tids(items)) \cap dbAtOpen = {})

\* C7 witness: a run that resumed from the rows of an earlier run, skipped the
\* recorded thread and recorded another one, has been interrupted in its turn.
C7_Witness ==
    /\ pc = "Interrupted"
    /\ ~purged
    /\ dbAtOpen # {}
    /\ runPushes # <<>>
    /\ Range(runPushes) \subseteq db
    /\ dbAtOpen \subseteq db
    /\ ii <= Len(items)

\* the ways a run ends that C8 lists besides completion
Ended8 ==
    \/ pc \in {"Interrupted", "NothingNew"}
    \/ (pc = "Failed" /\ cause \in {"push", "build", "field_missing",
                                    "group_missing", "preflight_http"})

\* C8: the store file is deleted by the step that completes the run and by no
\* other; a completed run has pushed every item; after an interrupted run, an
\* aborted push or preflight, or "nothing new", the file exists with its rows.
C8_StoreDeletedOnlyOnCompletion ==
    /\ [][(dbExists /\ ~dbExists') => (pc = "Close" /\ pc' = "Completed")]_vars
    /\ [](pc = "Completed" => (~dbExists /\ runPushes = Tids(items)))
    /\ [](Ended8 => (dbExists /\ dbAtOpen \subseteq db))
    /\ [][(pc \notin Terminal /\ Ended8') => (dbExists' /\ db \cup txn \subseteq db')]_vars

\* C8 witness: a run found nothing new and left rows in the store.
C8_Witness ==
    pc = "NothingNew" /\ dbExists /\ db # {}

\* C9: a request to create a ticket is issued only after GET /ticket_fields has
\* listed the custom field and the group id is known; a run that aborts on a
\* missing field or group has pushed nothing and recorded nothing, and the
\* missing group aborts after exactly one prompt.
C9_NoPushBeforePreflight ==
    /\ []((pc \in TryPcs \cup {"Close"}) => (fieldOk /\ group_id # 0))
    /\ []((pc = "Failed" /\ cause \in {"field_missing", "group_missing"})
             => (runPushes = <<>> /\ items = <<>> /\ db = dbAtOpen))
    /\ [][(cause' = "group_missing" /\ cause # "group_missing")
             => (pc = "RecheckGroup" /\ prompts = 1)]_vars
    /\ [](prompts <= 1)

\* C9 witness: the group was still missing after the prompt and the run aborted.
C9_Witness ==
    pc = "Failed" /\ cause = "group_missing" /\ dbExists

\* C10: no run is aborted by the construction of a ticket.
C10_DateNeverAborts ==
    ~(pc = "Failed" /\ cause = "build")

\* C11: the thread key of a message is the value of X-GM-THRID when that header
\* is set, else the value of Message-ID when set, else a token of its own; and a
\* message gets in a run the key it got in the run before (mailboxes whose
\* messages all differ, so that a message is told by its content).
C11_StableThreadKey ==
    /\ \A i \in 1..Len(items) :
          LET h == items[i].msg.hdrs IN
            IF Truthy(h, "X-GM-THRID") THEN items[i].tid = h["X-GM-THRID"]
            ELSE IF Truthy(h, "Message-ID") THEN items[i].tid = h["Message-ID"]
            ELSE /\ items[i].tid \in Addrs
                 /\ \A j \in 1..Len(items) : items[j].tid = items[i].tid => j = i
    /\ Distinct(mbox) =>
          \A i \in 1..Len(items), j \in 1..Len(prev.items) :
             items[i].msg = prev.items[j].msg => items[i].tid = prev.items[j].tid

\* the messages of the archive that pass the noise filter, in order
Survivors == SelectSeq(msgs, LAMBDA m : ~_is_spam(m.hdrs))

\* C12: the step that opens the store leaves the file existing with nothing
\* uncommitted; when the purge dropped rows the store is empty, otherwise it holds
\* exactly the rows it held (none when there was no file); a run whose store was
\* empty after opening takes every message that passes the noise filter as an item.
C12_OpenStore ==
    /\ [][(pc = "Prompt" /\ pc' = "CheckField")
             => /\ dbExists'
                /\ txn' = {}
                /\ dbAtOpen' = db'
                /\ IF purged' THEN db' = {} ELSE db' = db]_vars
    /\ [](~dbExists => db = {})
    /\ []((pc \in TryPcs \cup {"Close", "Completed", "NothingNew", "Interrupted"}
             /\ dbAtOpen = {})
            => Msgs(items) = Survivors)

\* C12 witness: the purge dropped the rows an earlier run had left and the
\* import loop starts over all surviving messages.
C12_Witness ==
    /\ purged
    /\ dbExists
    /\ db = {}
    /\ pc = "Loop"
    /\ ii = 1
    /\ Len(items) >= 2
    /\ Msgs(items) = Survivors

\* C13: the exit status is 0 after completion and after "nothing new to import";
\* it is positive after an interruption and after a run aborted by the preflight
\* or by any other propagated error; a running process has no status yet.
C13_ExitStatus ==
    /\ pc \in {"Completed", "NothingNew"} => exitCode = 0
    /\ pc = "Interrupted" => exitCode > 0
    /\ (pc = "Failed" /\ cause \in {"field_missing", "group_missing",
                                    "preflight_http", "KeyboardInterrupt"})
          => exitCode > 0
    /\ pc = "Failed" => exitCode > 0
    /\ pc \notin Terminal <=> exitCode = -1

\* C13 witness: a run has pushed two threads, completed and exited with status 0.
C13_Witness ==
    pc = "Completed" /\ exitCode = 0 /\ Len(runPushes) >= 2

\* the spellings under which a header name occurs in the archives explored
Canonical(name) ==
    CASE name = "x-gmail-labels" -> "X-Gmail-Labels"
      [] name = "precedence"     -> "Precedence"
      [] OTHER                   -> name

\* lookup of a header by name, the case of the name being ignored
GetAnyCase(headers, name, default) ==
    IF \E n \in DOMAIN headers : Canonical(n) = name
    THEN headers[CHOOSE n \in DOMAIN headers : Canonical(n) = name]
    ELSE default

StartsWith(s, p) == Len(s) >= Len(p) /\ SubSeq(s, 1, Len(p)) = p

\* the five rules of the noise filter as stated: values and header names compared
\* without regard to case, the sender address beginning with an administrative
\* local part
NoiseRules(headers) ==
    \/ \E l \in Range(split(GetAnyCase(headers, "X-Gmail-Labels", <<>>), ",")) :
          lower(strip(l)) \in _SKIP_LABELS
    \/ lower(GetAnyCase(headers, "Precedence", <<>>))
          \in { <<"b","u","l","k">>, <<"j","u","n","k">>, <<"l","i","s","t">> }
    \/ lower(GetAnyCase(headers, "Auto-Submitted", <<>>)) \notin { <<>>, <<"n","o">> }
    \/ Contains(lower(GetAnyCase(headers, "X-Auto-Response-Suppress", <<>>)),
                <<"a","l","l">>)
    \/ \E p \in _SPAM_ADDR_ALTS :
          StartsWith(lower(parseaddr_addr(GetAnyCase(headers, "From", <<>>))), p)

\* C14: the noise filter drops a message exactly when one of the five rules
\* matches its headers, header names and values being compared without regard to
\* case: once the filtering pass of a run with an empty store is over, the items
\* are the messages that match no rule.
C14_NoiseExactlyFiveRules ==
    (pc \in TryPcs \cup {"Filtering"} /\ mi > Len(msgs) /\ dbAtOpen = {})
        => /\ Msgs(items) = SelectSeq(msgs, LAMBDA m : ~NoiseRules(m.hdrs))
           /\ \A i \in 1..Len(msgs) :
                 _is_spam(msgs[i].hdrs) <=> NoiseRules(msgs[i].hdrs)

\* the current push() call has created its ticket remotely
TicketInFlight ==
    \/ pc = "Response" /\ resp = "ok"
    \/ pc \in {"Insert", "Commit"}

\* C15: the run never turns Interrupted while a push is in progress (a request
\* about to be sent, awaiting its answer, or sleeping before a retry), and when it
\* turns Interrupted the key of every ticket it has created is in the store.
C15_InterruptBetweenIterations ==
    [][(pc' = "Interrupted" /\ pc # "Interrupted")
          => /\ pc \notin {"Post", "Response", "Backoff"}
             /\ TicketInFlight => items[ii].tid \in db'
             /\ Range(runPushes) \subseteq db']_vars

\* C16: until the run completes and deletes the store, every push() that
\* returned in this run before the latest one has its key committed, at most one
\* pushed key is missing from the committed rows, and it is missing only between
\* the return of push() and the commit or after a crash or interrupt in between;
\* when no purge dropped rows, at most one key with a ticket created remotely is
\* missing from the committed rows.
C16_AtMostOneUnrecorded ==
    pc # "Completed" =>
        /\ \A i \in 1..(Len(runPushes) - 1) : runPushes[i] \in db
        /\ Cardinality({k \in Range(runPushes) : k \notin db}) <= 1
        /\ (runPushes # <<>> /\ runPushes[Len(runPushes)] \notin db)
              => pc \in {"Insert", "Commit", "Interrupted", "Failed"}
        /\ ~purged => Cardinality({k \in AllKeys : created[k] > 0 /\ k \notin db}) <= 1

\* C16 witness: the process was killed between the return of the second push and
\* its commit: the first key is committed, the second is lost.
C16_Witness ==
    /\ pc = "Failed"
    /\ cause = "crash"
    /\ Len(runPushes) = 2
    /\ runPushes[1] \in db
    /\ runPushes[2] \notin db

\* C17: the keys push() returned for are, in order, the keys of the first items
\* of the list, each return being that of the item the loop stands at; while the
\* push of item ii is in progress every earlier item has been pushed, its key is
\* committed with nothing pending, and one rate-delay sleep per earlier item is
\* over.
C17_SequentialInOrder ==
    /\ [](/\ Len(runPushes) <= Len(items)
          /\ runPushes = SubSeq(Tids(items), 1, Len(runPushes)))
    /\ [](pc \in {"Post", "Response", "Backoff"}
            => /\ ii \in 1..Len(items)
               /\ Len(runPushes) = ii - 1
               /\ sleeps = ii - 1
               /\ txn = {}
               /\ \A j \in 1..(ii - 1) : items[j].tid \in db)
    /\ [][runPushes' # runPushes
            => /\ pc = "Response"
               /\ ii = Len(runPushes) + 1
               /\ runPushes' = Append(runPushes, items[ii].tid)]_vars
    /\ [][(pc \in TryPcs /\ pc' \in TryPcs) => (items' = items /\ ii' \in {ii, ii + 1})]_vars

\* C17 witness: the first request for the second item is about to be sent, the
\* first item being pushed, committed and slept for.
C17_Witness ==
    /\ pc = "Post"
    /\ ii = 2
    /\ requests = 0
    /\ runPushes = <<items[1].tid>>
    /\ items[1].tid \in db
    /\ items[2].tid \notin db
    /\ sleeps = 1

C19_LookupsOnlyWhileFiltering ==
    /\ [][lookups' # lookups
            => /\ pc = "Filtering"
               /\ pc' = "Filtering"
               /\ lookups' = lookups + 1
               /\ runPushes = <<>>
               /\ ii = 0
               /\ txn = {}
               /\ db = dbAtOpen]_vars
    /\ [][(pc \in TryPcs \cup {"Close"}) => (items' = items)]_vars
    /\ [](pc \in TryPcs \cup {"Close"}
            => LET S == Survivors IN
                 /\ lookups = Len(S)
                 /\ \A i \in 1..Len(items) :
                       /\ items[i].tid \notin dbAtOpen
                       /\ items[i].msg \in Range(S)
                 /\ \A j \in 1..Len(S) :
                       (/\ ThreadKeys(S[j].hdrs, {}) \cap Addrs = {}
                        /\ ThreadKeys(S[j].hdrs, {}) \cap dbAtOpen = {})
                         => \E i \in 1..Len(items) : items[i].msg = S[j])

\* C19 witness: the second item is being pushed although its key was committed
\* earlier in the same run: the lookup is not repeated.
C19_Witness ==
    /\ pc = "Post"
    /\ ii = 2
    /\ items[2].tid \in db
    /\ items[2].tid \notin dbAtOpen
    /\ lookups = Len(Survivors)

\* C20: every run ends: it reaches Completed, NothingNew, Interrupted or Failed
\* and stays in the outcome it reached, with an exit status; on the way the
\* filtering pass moves one message forward per step, a push() call issues at
\* most 5 requests, and the import loop moves one item forward at a time, never
\* back.
C20_RunTerminates ==
    /\ <>(pc \in Terminal)
    /\ [][(pc \in Terminal) => (pc' = pc /\ exitCode' = exitCode)]_vars
    /\ [](pc \in Terminal <=> exitCode >= 0)
    /\ [][pc = "Filtering" => (mi <= Len(msgs) + 1 /\ mi' \in {mi + 1, mi, 0})]_vars
    /\ [][(pc = "Filtering" /\ pc' = "Filtering") => mi' = mi + 1]_vars
    /\ [](requests <= MaxAttempts /\ attempt <= MaxAttempts)
    /\ [][(pc = "Backoff" /\ pc' = "Post") => attempt' = attempt + 1]_vars
    /\ [][ii' # ii => (ii' = ii + 1 /\ ii <= Len(items))]_vars

\* C20 witness: a run over a mailbox of three messages has taken the longest
\* way: every scan step, five requests for the last push, and completion.
C20_Witness ==
    /\ pc = "Completed"
    /\ Len(items) = 3
    /\ ii = 4
    /\ lookups = 3
    /\ sleeps = 3

====
